---- MODULE Spec2Model ----
(***************************************************************************)
(* Model of src/app.py: a Flask front-end with two routes.  GET / loads    *)
(* DATA_ROOT/listing.json and renders the form; POST /ask validates the    *)
(* form against the loaded registry, runs `python -m graphrag query ...`   *)
(* as a blocking subprocess and renders the answer.                        *)
(*                                                                         *)
(* One worker handles one request at a time; the listing file and the      *)
(* external process belong to the environment and move concurrently.       *)
(* Text is a sequence of one-character strings.                            *)
(***************************************************************************)
EXTENDS Integers, Sequences, FiniteSets, TLC

\* Longest JSON array the listing file holds in the model.
MaxEntries == 2

\* Requests counted before the count of answered requests saturates.
MaxServed == 2

\* e.stderr[:500]
TRUNC == 500

(***************************************************************************)
(* Text                                                                    *)
(***************************************************************************)
WS == {" ", "\n", "\t"}

RECURSIVE lstrip(_)
lstrip(s) == IF s # <<>> /\ Head(s) \in WS THEN lstrip(Tail(s)) ELSE s

RECURSIVE rstrip(_)
rstrip(s) == IF s # <<>> /\ s[Len(s)] \in WS
             THEN rstrip(SubSeq(s, 1, Len(s) - 1)) ELSE s

\* str.strip()
strip(s) == rstrip(lstrip(s))

Min(a, b) == IF a < b THEN a ELSE b

\* s[:n]
slice_to(s, n) == SubSeq(s, 1, Min(n, Len(s)))

FAIL_PREFIX == <<"G","r","a","p","h","R","A","G"," ","q","u","e","r","y",
                 " ","f","a","i","l","e","d",":","\n">>

ELLIPSIS == <<".", ".", ".">>

failure_text_short(stderr) ==
    IF Len(stderr) > TRUNC
    THEN FAIL_PREFIX \o slice_to(stderr, TRUNC) \o ELLIPSIS
    ELSE FAIL_PREFIX \o stderr

\* f"GraphRAG query failed:\n{e.stderr[:500]}..."
failure_text(stderr) == FAIL_PREFIX \o slice_to(stderr, TRUNC) \o ELLIPSIS

(***************************************************************************)
(* Python values: None and str; JSON null parses to None.                  *)
(***************************************************************************)
None == [t |-> "None", v |-> ""]
Str(s) == [t |-> "str", v |-> s]

(***************************************************************************)
(* Paths: a sequence of components, absolute when it starts with "/".      *)
(***************************************************************************)
DATA_ROOT == <<"/", "srv", "data">>

\* pathlib's DATA_ROOT / p : an absolute right operand replaces the left one
path_join(root, p) == IF p # <<>> /\ Head(p) = "/" THEN p ELSE root \o p

(***************************************************************************)
(* listing.json                                                            *)
(***************************************************************************)
\* An element of the JSON array: an object with optional "key" and "path",
\* or a value that is not an object.
Obj(hasKey, key, hasPath, path) ==
    [obj |-> TRUE, hasKey |-> hasKey, key |-> key,
     hasPath |-> hasPath, path |-> path]

NonObj == [obj |-> FALSE, hasKey |-> FALSE, key |-> None,
           hasPath |-> FALSE, path |-> <<>>]

Entries ==
    { Obj(TRUE, Str("a"), TRUE, <<"alpha_data">>),
      Obj(TRUE, Str("a"), TRUE, <<"/", "abs">>),
      Obj(TRUE, None,     TRUE, <<"alpha_data">>),
      Obj(FALSE, None,    TRUE, <<"alpha_data">>),
      Obj(TRUE, Str("b"), FALSE, <<>>) }

Array(items)  == [t |-> "array",  items |-> items]
Object(names) == [t |-> "object", items |-> names]
Number        == [t |-> "number", items |-> <<>>]

File(st, val) == [st |-> st, val |-> val]

ArrayFiles(n) ==
    { File("json", Array(s)) : s \in UNION { [1..k -> Entries] : k \in 0..n } }

OtherFiles ==
    { File("missing", Array(<<>>)),
      File("unreadable", Array(<<>>)),
      File("undecodable", Array(<<>>)),
      File("notjson", Array(<<>>)),
      File("json", Number),
      File("json", Object(<<>>)),
      File("json", Object(<<NonObj>>)) }

\* every content the file may have when the server starts
FileStates == ArrayFiles(MaxEntries) \cup OtherFiles

\* what a concurrent writer leaves behind
Rewrites ==
    { File("json", Array(<<>>)),
      File("json", Array(<<Obj(TRUE, Str("a"), TRUE, <<"/", "abs">>)>>)),
      File("json", Array(<<Obj(TRUE, Str("b"), FALSE, <<>>)>>)) }
    \cup OtherFiles

(***************************************************************************)
(* load_datasets                                                           *)
(***************************************************************************)
Returned(val) == [raised |-> "none", val |-> val]
Raised(exc)   == [raised |-> exc, val |-> Array(<<>>)]
NotLoaded     == [raised |-> "unset", val |-> Array(<<>>)]

\* listing.exists()
listing_exists(file) == file.st # "missing"

\* the try block: open, decode, json.load; only JSONDecodeError is caught
load_open(file) ==
    CASE file.st = "missing"     -> Raised("FileNotFoundError")
      [] file.st = "unreadable"  -> Raised("PermissionError")
      [] file.st = "undecodable" -> Raised("UnicodeDecodeError")
      [] file.st = "notjson"     -> Returned(Array(<<>>))
      [] OTHER                   -> Returned(file.val)

(***************************************************************************)
(* {d["key"]: d for d in load_datasets()}                                  *)
(* A dict is the sequence of its items in insertion order.                 *)
(***************************************************************************)
dict_has(d, k) == \E i \in 1..Len(d) : d[i].k = k

dict_get(d, k) == d[CHOOSE i \in 1..Len(d) : d[i].k = k].v

dict_set_keep_first(d, k, v) ==
    IF dict_has(d, k) THEN d ELSE Append(d, [k |-> k, v |-> v])

\* d[k] = v : an existing key keeps its position and takes the new value
dict_set(d, k, v) ==
    IF dict_has(d, k)
    THEN [i \in 1..Len(d) |-> IF d[i].k = k THEN [k |-> k, v |-> v] ELSE d[i]]
    ELSE Append(d, [k |-> k, v |-> v])

dict_values(d) == [i \in 1..Len(d) |-> d[i].v]

RECURSIVE build_items(_, _)
build_items(items, acc) ==
    IF items = <<>> THEN [raised |-> "none", d |-> acc]
    ELSE LET e == Head(items) IN
         IF ~e.obj THEN [raised |-> "TypeError", d |-> <<>>]
         ELSE IF ~e.hasKey THEN [raised |-> "KeyError", d |-> <<>>]
         ELSE build_items(Tail(items), dict_set(acc, e.key, e))

build_dict(val) ==
    IF val.t = "number" THEN [raised |-> "TypeError", d |-> <<>>]
    ELSE build_items(val.items, <<>>)

(***************************************************************************)
(* The request form and what the external process can print                *)
(***************************************************************************)
Absent(dflt) == [present |-> FALSE, v |-> dflt]
Present(v)   == [present |-> TRUE, v |-> v]

QuestionFields == { Absent(<<>>), Present(<<" ">>), Present(<<"q">>),
                    Present(<<" ", "q", "\n">>) }
DatasetFields  == { Absent(""), Present("a"), Present("b") }
MethodFields   == { Absent(""), Present("local") }

Forms == [question : QuestionFields, dataset : DatasetFields,
          method : MethodFields]

NoForm == [question |-> Absent(<<>>), dataset |-> Absent(""),
           method |-> Absent("")]

\* request.form.get(name, default)
form_get(field, dflt) == IF field.present THEN field.v ELSE dflt

Text(n) == [i \in 1..n |-> IF i % 2 = 0 THEN "e" ELSE "x"]

Stdouts == { <<" ", "P", "\n">>, <<>> }
Stderrs == { Text(0), Text(3), Text(TRUNC + 100) }
ExitCodes == {0, 1}

\* (exit code, stdout, stderr) of a finished process
Outcomes == { <<0, out, <<>>>> : out \in Stdouts }
            \cup { <<1, <<>>, err>> : err \in Stderrs }

(***************************************************************************)
(* State                                                                   *)
(***************************************************************************)
VARIABLES
    listing,        \* DATA_ROOT/listing.json on disk
    pc,             \* where the worker is in the current request
    route,          \* "GET" or "POST"
    form,           \* request.form
    question,       \* ask: question
    ds_key,         \* ask: ds_key
    method,         \* ask: method
    datasets,       \* what load_datasets() returned or raised
    loads,          \* calls of load_datasets() made by this request
    datasets_dict,  \* ask: datasets_dict
    dataset_path,   \* ask: dataset_path
    call,           \* the call of graphrag_cli_query
    proc,           \* the subprocess started by subprocess.run
    answer,         \* ask: answer
    resp,           \* what the HTTP layer gets back
    served          \* requests answered since the process started

vars == <<listing, pc, route, form, question, ds_key, method, datasets,
          loads, datasets_dict, dataset_path, call, proc, answer, resp, served>>

NoCall == [called |-> FALSE, dataset_path |-> <<>>, question |-> <<>>,
           method |-> ""]

NoProc == [state |-> "none", starts |-> 0, argv |-> <<>>, code |-> 0,
           stdout |-> <<>>, stderr |-> <<>>]

NoResp == [kind |-> "none", exc |-> "", datasets |-> Array(<<>>),
           hasAnswer |-> FALSE, answer |-> <<>>, ask |-> <<>>,
           chosen |-> None, method |-> "", flash |-> "", location |-> ""]

\* an exception nobody catches leaves the view function
Unhandled(exc) == [NoResp EXCEPT !.kind = "exception", !.exc = exc]

\* flash("Please enter a question and choose a dataset.", "danger")
\* return redirect(url_for("index"))
RedirectWithFlash ==
    [NoResp EXCEPT !.kind = "redirect", !.flash = "danger", !.location = "/"]

\* render_template("index.html", datasets=datasets)
RenderIndex(ds) == [NoResp EXCEPT !.kind = "render", !.datasets = ds]

\* render_template("index.html", datasets=..., answer=..., ask=...,
\*                 chosen=..., method=...)
RenderAnswer(ds, ans, q, key, m) ==
    [NoResp EXCEPT !.kind = "render", !.datasets = ds, !.hasAnswer = TRUE,
                   !.answer = ans, !.ask = q, !.chosen = key, !.method = m]

build_cmd_swapped(path, q, m) ==
    <<"python", "-m", "graphrag", "query", "--root", path,
      "--method", q, "--query", m>>

\* cmd = [sys.executable, "-m", "graphrag", "query", "--root", ..., ...]
build_cmd(path, q, m) ==
    <<"python", "-m", "graphrag", "query", "--root", path,
      "--method", m, "--query", q>>

Init ==
    /\ listing \in FileStates
    /\ pc = "idle"
    /\ route = "none"
    /\ form = NoForm
    /\ question = <<>>
    /\ ds_key = None
    /\ method = ""
    /\ datasets = NotLoaded
    /\ loads = 0
    /\ datasets_dict = <<>>
    /\ dataset_path = <<>>
    /\ call = NoCall
    /\ proc = NoProc
    /\ answer = <<>>
    /\ resp = NoResp
    /\ served = 0

load_missing_stale ==
    IF datasets.raised = "none" THEN datasets ELSE Returned(Array(<<>>))

\* the `return []` taken when listing.json is not found
load_missing == Returned(Array(<<>>))

(***************************************************************************)
(* The environment                                                         *)
(***************************************************************************)
\* somebody rewrites, removes or chmods listing.json
FileWrite(c) ==
    /\ listing # c
    /\ listing' = c
    /\ UNCHANGED <<pc, route, form, question, ds_key, method, datasets, loads,
                   datasets_dict, dataset_path, call, proc, answer, resp,
                   served>>

\* the external process exits
ProcTerminate(code, out, err) ==
    /\ proc.state = "running"
    /\ proc' = [proc EXCEPT !.state = "exited", !.code = code,
                            !.stdout = out, !.stderr = err]
    /\ UNCHANGED <<listing, pc, route, form, question, ds_key, method,
                   datasets, loads, datasets_dict, dataset_path, call,
                   answer, resp, served>>

(***************************************************************************)
(* GET /                                                                   *)
(***************************************************************************)
IndexDone(r) ==
    /\ datasets' = r
    /\ resp' = IF r.raised = "none" THEN RenderIndex(r.val)
               ELSE Unhandled(r.raised)
    /\ pc' = "done"
    /\ served' = Min(served + 1, MaxServed)

\* index() up to listing.exists()
IndexBegin ==
    /\ pc \in {"idle", "done"}
    /\ route' = "GET"
    /\ form' = NoForm
    /\ question' = <<>> /\ ds_key' = None /\ method' = ""
    /\ datasets_dict' = <<>> /\ dataset_path' = <<>>
    /\ call' = NoCall /\ proc' = NoProc /\ answer' = <<>>
    /\ loads' = 1
    /\ IF listing_exists(listing)
       THEN /\ pc' = "index_open"
            /\ datasets' = NotLoaded
            /\ resp' = NoResp
            /\ served' = served
       ELSE IndexDone(load_missing)
    /\ UNCHANGED listing

\* index() from listing.open() to the response
IndexOpen ==
    /\ pc = "index_open"
    /\ IndexDone(load_open(listing))
    /\ UNCHANGED <<listing, route, form, question, ds_key, method, loads,
                   datasets_dict, dataset_path, call, proc, answer>>

(***************************************************************************)
(* POST /ask                                                               *)
(***************************************************************************)
\* the response when the handler ends before subprocess.run
AskEnds(r, d, path, c, p, out) ==
    /\ datasets' = r
    /\ datasets_dict' = d
    /\ dataset_path' = path
    /\ call' = c
    /\ proc' = p
    /\ resp' = out
    /\ pc' = IF out.kind = "none" THEN "running" ELSE "done"
    /\ served' = IF out.kind = "none" THEN served
                 ELSE Min(served + 1, MaxServed)

\* ask() from the value of load_datasets() to subprocess.run
AskContinue(r, q, key, m) ==
    IF r.raised # "none"
    THEN AskEnds(r, <<>>, <<>>, NoCall, NoProc, Unhandled(r.raised))
    ELSE
    LET b == build_dict(r.val) IN
    IF b.raised # "none"
    THEN AskEnds(r, <<>>, <<>>, NoCall, NoProc, Unhandled(b.raised))
    ELSE IF q = <<>> \/ ~dict_has(b.d, key)
    THEN AskEnds(r, b.d, <<>>, NoCall, NoProc, RedirectWithFlash)
    ELSE
    LET desc == dict_get(b.d, key) IN
    IF ~desc.hasPath
    THEN AskEnds(r, b.d, <<>>, NoCall, NoProc, Unhandled("KeyError"))
    ELSE
    LET path == path_join(DATA_ROOT, desc.path)
        c    == [called |-> TRUE, dataset_path |-> path, question |-> q,
                 method |-> m]
        cmd  == build_cmd(path, q, m)
    IN \E canStart \in BOOLEAN :
          IF canStart
          THEN AskEnds(r, b.d, path, c,
                       [NoProc EXCEPT !.state = "running", !.starts = 1,
                                      !.argv = cmd],
                       NoResp)
          ELSE AskEnds(r, b.d, path, c, NoProc, Unhandled("OSError"))

\* ask() up to listing.exists()
AskBegin(f) ==
    /\ pc \in {"idle", "done"}
    /\ route' = "POST"
    /\ form' = f
    /\ question' = strip(form_get(f.question, <<>>))
    /\ ds_key' = IF f.dataset.present THEN Str(f.dataset.v) ELSE None
    /\ method' = form_get(f.method, "global")
    /\ answer' = <<>>
    /\ loads' = 1
    /\ IF listing_exists(listing)
       THEN /\ pc' = "ask_open"
            /\ datasets' = NotLoaded
            /\ datasets_dict' = <<>> /\ dataset_path' = <<>>
            /\ call' = NoCall /\ proc' = NoProc
            /\ resp' = NoResp
            /\ served' = served
       ELSE AskContinue(load_missing, question', ds_key', method')
    /\ UNCHANGED listing

\* ask() from listing.open() to subprocess.run
AskOpen ==
    /\ pc = "ask_open"
    /\ AskContinue(load_open(listing), question, ds_key, method)
    /\ UNCHANGED <<listing, route, form, question, ds_key, method, loads,
                   answer>>

answer_of(p) ==
    IF p.code = 0 THEN strip(p.stdout) ELSE failure_text(p.stderr)

render_datasets_reread ==
    LET r == IF listing_exists(listing) THEN load_open(listing)
             ELSE load_missing
        b == IF r.raised = "none" THEN build_dict(r.val)
             ELSE [raised |-> r.raised, d |-> <<>>]
    IN Array(dict_values(b.d))

render_datasets_loaded == datasets.val

\* datasets=datasets_dict.values()
render_datasets == Array(dict_values(datasets_dict))

AskFinishEarly ==
    /\ pc = "running"
    /\ proc.state \in {"running", "exited"}
    /\ answer' = IF proc.state = "exited" THEN answer_of(proc) ELSE <<>>
    /\ resp' = RenderAnswer(render_datasets, answer', question, ds_key, method)
    /\ pc' = "done"
    /\ served' = Min(served + 1, MaxServed)
    /\ UNCHANGED <<listing, route, form, question, ds_key, method, datasets,
                   loads, datasets_dict, dataset_path, call, proc>>

\* ask() once subprocess.run has returned or raised CalledProcessError
AskFinish ==
    /\ pc = "running"
    /\ proc.state = "exited"
    /\ answer' = answer_of(proc)
    /\ resp' = RenderAnswer(render_datasets, answer', question, ds_key, method)
    /\ pc' = "done"
    /\ served' = Min(served + 1, MaxServed)
    /\ UNCHANGED <<listing, route, form, question, ds_key, method, datasets,
                   loads, datasets_dict, dataset_path, call, proc>>

Next ==
    \/ \E c \in Rewrites : FileWrite(c)
    \/ \E o \in Outcomes : ProcTerminate(o[1], o[2], o[3])
    \/ IndexBegin
    \/ IndexOpen
    \/ \E f \in Forms : AskBegin(f)
    \/ AskOpen
    \/ AskFinish

Spec == Init /\ [][Next]_vars

\* the same server started on one of the listings a writer leaves behind
InitLive == Init /\ listing \in Rewrites

\* the worker thread keeps running once subprocess.run has returned
FairSpec == InitLive /\ [][Next]_vars /\ WF_vars(AskFinish)

(***************************************************************************)
(* Vocabulary of the properties, stated over the request and the file      *)
(* content it loaded rather than over the handler's own lookup table.      *)
(***************************************************************************)
Loaded == datasets.val.items

SubmittedQuestion == IF form.question.present THEN form.question.v ELSE <<>>

SubmittedKey == IF form.dataset.present THEN Str(form.dataset.v) ELSE None

SubmittedMethod == IF form.method.present THEN form.method.v ELSE "global"

\* positions of the loaded registry whose descriptor has key k
KeyIdx(k) == { i \in 1..Len(Loaded) :
                 Loaded[i].obj /\ Loaded[i].hasKey /\ Loaded[i].key = k }

LastIdx(k) == CHOOSE i \in KeyIdx(k) : \A j \in KeyIdx(k) : j <= i

\* every element of the loaded value is an object with a key
WellFormed ==
    /\ datasets.raised = "none"
    /\ datasets.val.t # "number"
    /\ \A i \in 1..Len(Loaded) : Loaded[i].obj /\ Loaded[i].hasKey

Trimmed(s) ==
    /\ s # <<>> => (s[1] \notin WS /\ s[Len(s)] \notin WS)
    /\ \E a \in 0..Len(SubmittedQuestion) :
          /\ a + Len(s) <= Len(SubmittedQuestion)
          /\ s = SubSeq(SubmittedQuestion, a + 1, a + Len(s))
          /\ \A i \in 1..Len(SubmittedQuestion) :
                (i <= a \/ i > a + Len(s)) => SubmittedQuestion[i] \in WS

\* the handler is past its validation and did not reject the form
PassedValidation ==
    /\ route = "POST"
    /\ pc \in {"running", "done"}
    /\ WellFormed
    /\ \E c \in DOMAIN SubmittedQuestion : SubmittedQuestion[c] \notin WS
    /\ KeyIdx(SubmittedKey) # {}

UnderRoot(p) == IF p # <<>> /\ p[1] = "/" THEN p ELSE DATA_ROOT \o p

AnswerPage == route = "POST" /\ resp.kind = "render"

(***************************************************************************)
(* C1: every request ends in a rendered page or a redirect, never in an    *)
(* exception that reaches the HTTP layer, whatever listing.json holds and  *)
(* however the external process ends.                                      *)
(***************************************************************************)
C1_NeverUnhandled == resp.kind # "exception"

(***************************************************************************)
(* C2: a POST /ask whose question is empty or blank, or whose dataset      *)
(* field is absent or names no key of the registry loaded for the request, *)
(* never reaches graphrag_cli_query.                                       *)
(***************************************************************************)
C2_InvalidNeverInvokes ==
    ( /\ route = "POST"
      /\ \/ \A c \in DOMAIN SubmittedQuestion : SubmittedQuestion[c] \in WS
         \/ ~form.dataset.present
         \/ KeyIdx(Str(form.dataset.v)) = {} )
    => (~call.called /\ proc.starts = 0)

(***************************************************************************)
(* C3: load_datasets never raises to its caller.                           *)
(***************************************************************************)
C3_LoadNeverRaises == datasets.raised \in {"unset", "none"}

(***************************************************************************)
(* C4: when the external process exits with a non-zero code the request    *)
(* still renders a page, and its answer is "GraphRAG query failed:\n",     *)
(* then the first 500 characters of stderr, then "...", for every length   *)
(* of stderr.                                                              *)
(***************************************************************************)
C4_FailureText ==
    (route = "POST" /\ pc = "done" /\ proc.state = "exited" /\ proc.code # 0)
    => LET n == Min(Len(proc.stderr), TRUNC)
           k == Len(FAIL_PREFIX)
       IN /\ resp.kind = "render"
          /\ Len(resp.answer) = k + n + 3
          /\ \A i \in 1..k : resp.answer[i] = FAIL_PREFIX[i]
          /\ \A i \in 1..n : resp.answer[k + i] = proc.stderr[i]
          /\ \A i \in 1..3 : resp.answer[k + n + i] = "."

C4_Witness ==
    /\ AnswerPage
    /\ proc.code # 0
    /\ Len(proc.stderr) > TRUNC
    /\ Len(resp.answer) = Len(FAIL_PREFIX) + TRUNC + 3

C6_FullListAndRawQuestion ==
    AnswerPage =>
       /\ resp.datasets = datasets.val
       /\ resp.ask = SubmittedQuestion
       /\ resp.chosen = SubmittedKey
       /\ resp.method = SubmittedMethod
       /\ resp.hasAnswer

\* positions where a key occurs for the first time
FirstIdxs == { i \in 1..Len(Loaded) :
                 \A j \in 1..(i - 1) : Loaded[j].key # Loaded[i].key }

NthFirst(n) == CHOOSE i \in FirstIdxs :
                  Cardinality({ j \in FirstIdxs : j <= i }) = n

(***************************************************************************)
(* C6 amended: the answer page carries one descriptor per distinct key of  *)
(* the loaded registry (the last descriptor with that key, at the place of *)
(* the key's first occurrence), the answer or the failure text, the        *)
(* whitespace-trimmed question, the chosen key and the chosen method.      *)
(***************************************************************************)
C6_AnswerPage ==
    AnswerPage =>
       /\ resp.datasets.t = "array"
       /\ Len(resp.datasets.items) = Cardinality(FirstIdxs)
       /\ \A n \in 1..Cardinality(FirstIdxs) :
             resp.datasets.items[n] = Loaded[LastIdx(Loaded[NthFirst(n)].key)]
       /\ Trimmed(resp.ask)
       /\ resp.chosen = SubmittedKey
       /\ resp.method = SubmittedMethod
       /\ resp.hasAnswer
       /\ proc.code = 0 => resp.answer = strip(proc.stdout)
       /\ proc.code # 0 =>
             SubSeq(resp.answer, 1, Len(FAIL_PREFIX)) = FAIL_PREFIX

C6_Witness ==
    /\ AnswerPage
    /\ Len(resp.datasets.items) < Len(Loaded)
    /\ resp.ask # SubmittedQuestion
    /\ resp.answer = <<"P">>

(***************************************************************************)
(* C7: when listing.json has several descriptors with one key, the lookup  *)
(* maps the key to the last of them in file order, and that one's path     *)
(* goes to the Query Invoker.                                              *)
(***************************************************************************)
C7_LastOccurrenceWins ==
    call.called =>
       /\ dict_get(datasets_dict, ds_key) = Loaded[LastIdx(SubmittedKey)]
       /\ call.dataset_path = UnderRoot(Loaded[LastIdx(SubmittedKey)].path)

C7_Witness ==
    /\ call.called
    /\ proc.state = "running"
    /\ Cardinality(KeyIdx(SubmittedKey)) >= 2
    /\ \E i \in KeyIdx(SubmittedKey) :
          Loaded[i].path # Loaded[LastIdx(SubmittedKey)].path

(***************************************************************************)
(* C8: a validated POST /ask starts the external process once and answers  *)
(* only after it has terminated: no answer while it runs, and an answer    *)
(* eventually once it has exited, whatever the exit code.                  *)
(***************************************************************************)
C8_CoupledToProcess ==
    /\ [](proc.starts <= 1)
    /\ [](proc.state = "running" => (resp.kind = "none" /\ pc = "running"))
    /\ [](AnswerPage => (proc.state = "exited" /\ proc.starts = 1))
    /\ \A code \in ExitCodes :
          (pc = "running" /\ proc.state = "exited" /\ proc.code = code)
             ~> (AnswerPage /\ proc.code = code)

C8_Witness ==
    /\ AnswerPage
    /\ proc.state = "exited"
    /\ proc.starts = 1
    /\ proc.code = 1

C10_OneSnapshot ==
    AnswerPage =>
       /\ loads = 1
       /\ KeyIdx(resp.chosen) # {}
       /\ call.dataset_path = UnderRoot(Loaded[LastIdx(resp.chosen)].path)
       /\ \A i \in 1..Len(Loaded) :
             \E n \in 1..Len(resp.datasets.items) :
                resp.datasets.items[n].key = Loaded[i].key
       /\ \A n \in 1..Len(resp.datasets.items) :
             \E i \in 1..Len(Loaded) : resp.datasets.items[n] = Loaded[i]

C10_Witness ==
    /\ AnswerPage
    /\ loads = 1
    /\ Loaded # <<>>
    /\ listing # File("json", datasets.val)

====
